---------------------------- MODULE Spec2Model ----------------------------
(***************************************************************************)
(* A model of dashboard.py, the Streamlit HIV/AIDS dashboard.              *)
(*                                                                         *)
(* Text (a cell of a CSV file, a column name) is a sequence of one-        *)
(* character strings, so that str.replace, re.split, the regular           *)
(* expression search and float() are computed character by character.      *)
(* A DataFrame is a record [columns, rows]: the column labels in order     *)
(* (pandas allows a label twice) and the rows, each a sequence of cells.   *)
(* A cell is a string, a number or a null (pd.NA, NaN and None are not     *)
(* told apart).  A number is m * 10^(-e), kept normalised.                 *)
(***************************************************************************)
EXTENDS Integers, Sequences, FiniteSets

-----------------------------------------------------------------------------
(* Bounds of the model.                                                    *)

\* the longest point-estimate part "V" of a generated cell
MaxVLen == 3
\* how many times the input files may be changed in one behaviour
MaxChanges == 2

-----------------------------------------------------------------------------
(* Text.                                                                   *)

Digits == <<"0", "1", "2", "3", "4", "5", "6", "7", "8", "9">>

IsDigit(c) == \E i \in 1..10 : Digits[i] = c

DigitVal(c) == (CHOOSE i \in 1..10 : Digits[i] = c) - 1

\* \s of Python's re, and what str.strip() and float() skip
IsSpace(c) == c \in {" ", "\t"}

\* s[i..] starts with the text p
StartsWithAt(s, i, p) ==
    /\ i + Len(p) - 1 <= Len(s)
    /\ \A k \in 1..Len(p) : s[i + k - 1] = p[k]

\* str.replace(old, new): every non-overlapping occurrence, left to right
RECURSIVE ReplaceFrom(_, _, _, _)
ReplaceFrom(s, i, old, new) ==
    IF i > Len(s) THEN <<>>
    ELSE IF StartsWithAt(s, i, old)
         THEN new \o ReplaceFrom(s, i + Len(old), old, new)
         ELSE <<s[i]>> \o ReplaceFrom(s, i + 1, old, new)

StrReplace(s, old, new) == ReplaceFrom(s, 1, old, new)

\* re.split(r'\s|\[', s)[0]: the text before the first whitespace or "["
FirstToken(s) ==
    LET cut == {i \in 1..Len(s) : IsSpace(s[i]) \/ s[i] = "["}
    IN  IF cut = {} THEN s
        ELSE SubSeq(s, 1, (CHOOSE i \in cut : \A j \in cut : i <= j) - 1)

\* re.search(r'\[(.*?)\]', s): a "[" with a "]" somewhere after it
ContainsBracket(s) ==
    \E i \in 1..Len(s) : \E j \in (i + 1)..Len(s) : s[i] = "[" /\ s[j] = "]"

\* str.strip()
Strip(s) ==
    LET keep == {i \in 1..Len(s) : ~IsSpace(s[i])}
    IN  IF keep = {} THEN <<>>
        ELSE SubSeq(s, CHOOSE i \in keep : \A j \in keep : i <= j,
                       CHOOSE i \in keep : \A j \in keep : i >= j)

-----------------------------------------------------------------------------
(* Numbers: m * 10^(-e), with no trailing zero in the e decimals.          *)

RECURSIVE Pow10(_)
Pow10(n) == IF n = 0 THEN 1 ELSE 10 * Pow10(n - 1)

RECURSIVE Normal(_, _)
Normal(m, e) ==
    IF e > 0 /\ m % 10 = 0 THEN Normal(m \div 10, e - 1) ELSE [m |-> m, e |-> e]

\* the digits of s read as a natural number (s holds digits only)
RECURSIVE DigitsVal(_)
DigitsVal(s) ==
    IF s = <<>> THEN 0
    ELSE 10 * DigitsVal(SubSeq(s, 1, Len(s) - 1)) + DigitVal(s[Len(s)])

\* body holds digits and at most one decimal point, and at least one digit
IsNumeral(body) ==
    /\ \A i \in 1..Len(body) : IsDigit(body[i]) \/ body[i] = "."
    /\ Cardinality({i \in 1..Len(body) : body[i] = "."}) <= 1
    /\ \E i \in 1..Len(body) : IsDigit(body[i])

\* where the decimal point of a numeral is; past its end when it has none
DotAt(body) ==
    IF \E i \in 1..Len(body) : body[i] = "."
    THEN CHOOSE i \in 1..Len(body) : body[i] = "."
    ELSE Len(body) + 1

\* the value of a numeral whose decimal point is at dot
Magnitude(body, dot) ==
    Normal(DigitsVal(SubSeq(body, 1, dot - 1) \o SubSeq(body, dot + 1, Len(body))),
           IF dot > Len(body) THEN 0 ELSE Len(body) - dot)

Signed(n, negative) ==
    [ok |-> TRUE, m |-> IF negative THEN 0 - n.m ELSE n.m, e |-> n.e]

ParseBody(body, negative) ==
    IF IsNumeral(body) THEN Signed(Magnitude(body, DotAt(body)), negative)
    ELSE [ok |-> FALSE, m |-> 0, e |-> 0]

ParseStripped(t) ==
    IF t # <<>> /\ t[1] \in {"+", "-"} THEN ParseBody(Tail(t), t[1] = "-")
    ELSE ParseBody(t, FALSE)

\* float(s) for the texts of the model: surrounding whitespace is skipped,
\* then an optional sign, digits with at most one decimal point and at
\* least one digit.  Anything else is a ValueError (ok = FALSE).  Python
\* also reads exponents, underscores, "inf" and "nan"; no text of the
\* model spells one.
ParseFloat(s) == ParseStripped(Strip(s))

\* a + b
AddNum(a, b) ==
    LET e == IF a.e >= b.e THEN a.e ELSE b.e
    IN  Normal(a.m * Pow10(e - a.e) + b.m * Pow10(e - b.e), e)

-----------------------------------------------------------------------------
(* Cells and DataFrames.                                                   *)

Str(s) == [k |-> "str", s |-> s, m |-> 0, e |-> 0]

Num(m, e) == [k |-> "num", s |-> <<>>, m |-> m, e |-> e]

\* pd.NA, NaN
NA == [k |-> "na", s |-> <<>>, m |-> 0, e |-> 0]

\* pd.notna(x)
NotNa(c) == c.k # "na"

EmptyFrame == [columns |-> <<>>, rows |-> <<>>]

NRows(df) == Len(df.rows)

\* name in df.columns
HasColumn(df, name) == \E i \in 1..Len(df.columns) : df.columns[i] = name

\* the position of the (first) column labelled name
ColumnAt(df, name) ==
    CHOOSE i \in 1..Len(df.columns) :
        /\ df.columns[i] = name
        /\ \A j \in 1..(i - 1) : df.columns[j] # name

\* df[name]: the cells of a column, by row
ColumnCells(df, name) ==
    [r \in 1..NRows(df) |-> df.rows[r][ColumnAt(df, name)]]

\* df[name] = cells: an existing column is overwritten in place, a new one
\* is appended as the last column
SetColumn(df, name, cells) ==
    IF HasColumn(df, name)
    THEN [columns |-> df.columns,
          rows    |-> [r \in 1..NRows(df) |->
                        [j \in 1..Len(df.columns) |->
                            IF j = ColumnAt(df, name) THEN cells[r]
                            ELSE df.rows[r][j]]]]
    ELSE [columns |-> Append(df.columns, name),
          rows    |-> [r \in 1..NRows(df) |-> Append(df.rows[r], cells[r])]]

\* the positions of seq whose element is kept, as an order-preserving choice
RECURSIVE KeepIdx(_, _, _)
KeepIdx(n, i, keep) ==
    IF i > n THEN <<>>
    ELSE IF i \in keep THEN <<i>> \o KeepIdx(n, i + 1, keep)
         ELSE KeepIdx(n, i + 1, keep)

\* df.drop(columns = names): every column whose label is in names goes
DropColumns(df, names) ==
    LET keep == {i \in 1..Len(df.columns) : df.columns[i] \notin names}
        idx  == KeepIdx(Len(df.columns), 1, keep)
    IN  [columns |-> [j \in 1..Len(idx) |-> df.columns[idx[j]]],
         rows    |-> [r \in 1..NRows(df) |->
                        [j \in 1..Len(idx) |-> df.rows[r][idx[j]]]]]

\* df.rename(columns = {old: new}): a label that is absent is left alone
RenameColumn(df, old, new) ==
    [df EXCEPT !.columns =
        [i \in 1..Len(df.columns) |->
            IF df.columns[i] = old THEN new ELSE df.columns[i]]]

\* a column of dtype object is one that holds a string (read_csv gives a
\* column of numbers and blanks a numeric dtype)
IsObject(df, name) == \E r \in 1..NRows(df) : ColumnCells(df, name)[r].k = "str"

-----------------------------------------------------------------------------
(* pd.read_csv.  A CSV file is a header and records of text fields.        *)

\* fields read_csv takes for missing (those of its default list that the
\* model's texts can spell)
NaValues == {<<>>, <<"N", "A">>}

\* a field read as a number: no whitespace is generated around numbers,
\* so this is float() on the field
IsNumericField(f) == ParseFloat(f).ok

\* a number as a cell
NumCell(f) == [k |-> "num", s |-> <<>>, m |-> f.m, e |-> f.e]

\* column j holds only numbers and blanks: read_csv gives it a numeric dtype
IsNumericColumn(file, j) ==
    \A r \in 1..Len(file.records) :
        file.records[r][j] \in NaValues \/ IsNumericField(file.records[r][j])

\* the cells of column j: nulls for the blanks, numbers in a numeric
\* column, the fields as strings otherwise
ReadColumn(file, j, numeric) ==
    [r \in 1..Len(file.records) |->
        IF file.records[r][j] \in NaValues THEN NA
        ELSE IF numeric THEN NumCell(ParseFloat(file.records[r][j]))
        ELSE Str(file.records[r][j])]

ReadCsv(file) ==
    [columns |-> file.header,
     rows    |-> [r \in 1..Len(file.records) |->
                    [j \in 1..Len(file.header) |->
                        ReadColumn(file, j, IsNumericColumn(file, j))[r]]]]

-----------------------------------------------------------------------------
(* clean_and_extract.                                                      *)

Country == <<"C", "o", "u", "n", "t", "r", "y">>

WHO_Region == <<"W", "H", "O", "_", "R", "e", "g", "i", "o", "n">>

MedianSuffix == <<"_", "m", "e", "d", "i", "a", "n">>

\* the literal tokens of line 85
MissingTokens == {<<"N", "o", "d", "a", "t", "a">>,
                  <<"n", "a">>,
                  <<"N", "o", " ", "d", "a", "t", "a">>}

\* col.replace(' ', '_').replace('(%)', 'percent').replace('(15-49)', '15_49')
NormalizeColumn(col) ==
    StrReplace(
        StrReplace(
            StrReplace(col, <<" ">>, <<"_">>),
            <<"(", "%", ")">>, <<"p", "e", "r", "c", "e", "n", "t">>),
        <<"(", "1", "5", "-", "4", "9", ")">>, <<"1", "5", "_", "4", "9">>)

\* ReplaceTokens with the token 'No data' left out
ReplaceTokensNoSpace(c) ==
    IF c.k = "str" /\ c.s \in MissingTokens \ {<<"N", "o", " ", "d", "a", "t", "a">>}
    THEN NA ELSE c

\* Series.replace({'Nodata': pd.NA, 'na': pd.NA, 'No data': pd.NA}): a cell
\* that is exactly one of the tokens becomes null
ReplaceTokens(c) == IF c.k = "str" /\ c.s \in MissingTokens THEN NA ELSE c

\* Series.astype(str).str.contains(r'\[(.*?)\]', na=False) on one cell
CellHasBracket(c) == c.k = "str" /\ ContainsBracket(c.s)

\* float()'s result as a cell; ok = FALSE is its ValueError
FloatCell(f) == [ok |-> f.ok, cell |-> IF f.ok THEN NumCell(f) ELSE NA]

\* the text between the first "[" and the first "-" after it: the low end
\* of a range
LowEnd(s) ==
    IF \E i \in 1..Len(s) : s[i] = "[" /\ \E j \in (i + 1)..Len(s) : s[j] = "-"
    THEN SubSeq(s, (CHOOSE i \in 1..Len(s) :
                       s[i] = "[" /\ \A k \in 1..(i - 1) : s[k] # "[") + 1,
                   (CHOOSE j \in 1..Len(s) :
                       s[j] = "-" /\ \A k \in 1..(j - 1) : s[k] # "-") - 1)
    ELSE s

\* ExtractMedian reading the low end of the range for the point estimate
ExtractMedianLowEnd(c) ==
    IF NotNa(c) THEN FloatCell(ParseFloat(FirstToken(LowEnd(c.s))))
    ELSE [ok |-> TRUE, cell |-> NA]

\* the lambda of line 89: float(re.split(r'\s|\[', str(x))[0]) if
\* pd.notna(x) else pd.NA
ExtractMedian(c) ==
    IF NotNa(c) THEN FloatCell(ParseFloat(FirstToken(c.s)))
    ELSE [ok |-> TRUE, cell |-> NA]

\* a string read as a number, or a null (errors = 'coerce')
Coerced(f) == IF f.ok THEN NumCell(f) ELSE NA

\* pd.to_numeric(cell, errors = 'coerce')
ToNumeric(c) == IF c.k = "str" THEN Coerced(ParseFloat(c.s)) ELSE c

\* lines 87-90 once the medians are computed: a ValueError of float()
\* leaves the function; otherwise the new column is added and col is to
\* be dropped
AddMedians(acc, col, new_col_name, medians) ==
    IF \E r \in 1..NRows(acc.df) : ~medians[r].ok
    THEN [acc EXCEPT !.err = "ValueError"]
    ELSE [acc EXCEPT
            !.df = SetColumn(acc.df, new_col_name,
                             [r \in 1..NRows(acc.df) |-> medians[r].cell]),
            !.drop = @ \cup {col}]

\* lines 86-90 for an object column whose tokens are replaced
ExtractColumn(acc, col, replaced) ==
    IF ~\E r \in 1..NRows(acc.df) : CellHasBracket(replaced[r]) THEN acc
    ELSE IF HasColumn(acc.df, col \o MedianSuffix)
    THEN [acc EXCEPT !.drop = @ \cup {col}]
    ELSE AddMedians(acc, col, col \o MedianSuffix,
                    [r \in 1..NRows(acc.df) |-> ExtractMedian(replaced[r])])

\* line 85, then lines 86-90
ReplaceAndExtract(acc, col, replaced) ==
    ExtractColumn([acc EXCEPT !.df = SetColumn(acc.df, col, replaced)],
                  col, replaced)

\* one pass of the loop of lines 83-90 for column col; acc is the frame so
\* far, the columns to drop and the exception raised, if any
CleanColumn(acc, col) ==
    IF acc.err # "" \/ ~IsObject(acc.df, col) THEN acc
    ELSE ReplaceAndExtract(acc, col,
            [r \in 1..NRows(acc.df) |->
                ReplaceTokens(ColumnCells(acc.df, col)[r])])

\* the loop of line 83 runs over the labels the frame had when it started
RECURSIVE CleanLoop(_, _, _)
CleanLoop(acc, cols, i) ==
    IF i > Len(cols) THEN acc
    ELSE CleanLoop(CleanColumn(acc, cols[i]), cols, i + 1)

\* lines 92-94: every column but Country and WHO_Region goes through
\* pd.to_numeric(errors = 'coerce')
CoerceNumeric(df) ==
    [df EXCEPT !.rows =
        [r \in 1..NRows(df) |->
            [j \in 1..Len(df.columns) |->
                IF df.columns[j] \in {Country, WHO_Region}
                THEN df.rows[r][j]
                ELSE ToNumeric(df.rows[r][j])]]]

\* line 81
RenameColumns(df) ==
    [df EXCEPT !.columns =
        [i \in 1..Len(df.columns) |-> NormalizeColumn(df.columns[i])]]

\* lines 83-90 on the renamed frame
CleanColumns(renamed) ==
    CleanLoop([df |-> renamed, drop |-> {}, err |-> ""], renamed.columns, 1)

\* lines 91-95, unless the loop raised
FinishClean(acc) ==
    IF acc.err # "" THEN [ok |-> FALSE, err |-> acc.err, df |-> EmptyFrame]
    ELSE [ok |-> TRUE, err |-> "",
          df |-> CoerceNumeric(DropColumns(acc.df, acc.drop))]

\* clean_and_extract(df): [ok, err, df]; ok = FALSE when it raises
clean_and_extract(df) == FinishClean(CleanColumns(RenameColumns(df)))

-----------------------------------------------------------------------------
(* Column labels the script names.                                         *)

Count_median ==
    <<"C", "o", "u", "n", "t", "_", "m", "e", "d", "i", "a", "n">>

Count_median_living ==
    <<"C", "o", "u", "n", "t", "_", "m", "e", "d", "i", "a", "n", "_", "l",
      "i", "v", "i", "n", "g">>

Count_median_deaths ==
    <<"C", "o", "u", "n", "t", "_", "m", "e", "d", "i", "a", "n", "_", "d",
      "e", "a", "t", "h", "s">>

Count_median_adult_cases ==
    <<"C", "o", "u", "n", "t", "_", "m", "e", "d", "i", "a", "n", "_", "a",
      "d", "u", "l", "t", "_", "c", "a", "s", "e", "s">>

Percentage_Recieved_median ==
    <<"P", "e", "r", "c", "e", "n", "t", "a", "g", "e", "_", "R", "e", "c",
      "i", "e", "v", "e", "d", "_", "m", "e", "d", "i", "a", "n">>

PMTCT_Percentage_Recieved_median ==
    <<"P", "M", "T", "C", "T", "_", "P", "e", "r", "c", "e", "n", "t", "a",
      "g", "e", "_", "R", "e", "c", "i", "e", "v", "e", "d", "_", "m", "e",
      "d", "i", "a", "n">>

ART_coverage_median ==
    <<"E", "s", "t", "i", "m", "a", "t", "e", "d", "_", "A", "R", "T", "_",
      "c", "o", "v", "e", "r", "a", "g", "e", "_", "a", "m", "o", "n", "g",
      "_", "p", "e", "o", "p", "l", "e", "_", "l", "i", "v", "i", "n", "g",
      "_", "w", "i", "t", "h", "_", "H", "I", "V", "_", "p", "e", "r", "c",
      "e", "n", "t", "_", "m", "e", "d", "i", "a", "n">>

Paediatric_ART_coverage_median ==
    <<"E", "s", "t", "i", "m", "a", "t", "e", "d", "_", "A", "R", "T", "_",
      "c", "o", "v", "e", "r", "a", "g", "e", "_", "a", "m", "o", "n", "g",
      "_", "c", "h", "i", "l", "d", "r", "e", "n", "_", "p", "e", "r", "c",
      "e", "n", "t", "_", "m", "e", "d", "i", "a", "n">>

SuffixX == <<"_", "x">>

SuffixY == <<"_", "y">>

-----------------------------------------------------------------------------
(* pd.merge(left, right, on = 'Country', how = 'outer').                   *)

\* the labels of a frame other than the key
NonKeyLabels(df) == {df.columns[i] : i \in 1..Len(df.columns)} \ {Country}

\* the labels after the suffixes: a label the two frames share, the key
\* apart, gets suffix
SuffixedLabels(cols, overlap, suffix) ==
    [i \in 1..Len(cols) |->
        IF cols[i] \in overlap THEN cols[i] \o suffix ELSE cols[i]]

\* a label that the suffix made equal to an earlier one, while it was not a
\* repeat before: pandas 2 raises MergeError on it, pandas 1 only warns and
\* returns the frame with the label twice
NewDuplicate(before, after) ==
    \E i \in 1..Len(after) :
        /\ \E j \in 1..(i - 1) : after[j] = after[i]
        /\ ~\E j \in 1..(i - 1) : before[j] = before[i]

\* two keys match when they are equal; pandas matches null keys with each
\* other
KeysMatch(a, b) == a = b

\* the rows of the join for left rows i.. : each left row once per matching
\* right row, or once with nulls for the right columns when none matches
RECURSIVE LeftRows(_, _, _, _, _)
LeftRows(left, right, rnk, i, j) ==
    LET lk    == ColumnAt(left, Country)
        rk    == ColumnAt(right, Country)
        nulls == [c \in 1..Len(rnk) |-> NA]
        joined(a, b) == left.rows[a] \o [c \in 1..Len(rnk) |-> right.rows[b][rnk[c]]]
        any   == \E b \in 1..NRows(right) :
                    KeysMatch(left.rows[i][lk], right.rows[b][rk])
    IN  IF i > NRows(left) THEN <<>>
        ELSE IF ~any
             THEN <<left.rows[i] \o nulls>> \o LeftRows(left, right, rnk, i + 1, 1)
        ELSE IF j > NRows(right) THEN LeftRows(left, right, rnk, i + 1, 1)
        ELSE IF KeysMatch(left.rows[i][lk], right.rows[j][rk])
             THEN <<joined(i, j)>> \o LeftRows(left, right, rnk, i, j + 1)
        ELSE LeftRows(left, right, rnk, i, j + 1)

\* a left join: the right frame's unmatched rows are lost
RightOnlyRowsDropped(left, right, rnk, j) == <<>>

\* the rows of the right frame that no left row matches: the key, nulls
\* for the other left columns, the right row's cells
RECURSIVE RightOnlyRows(_, _, _, _)
RightOnlyRows(left, right, rnk, j) ==
    LET lk  == ColumnAt(left, Country)
        rk  == ColumnAt(right, Country)
        any == \E a \in 1..NRows(left) :
                  KeysMatch(left.rows[a][lk], right.rows[j][rk])
        row == [c \in 1..Len(left.columns) |->
                   IF c = lk THEN right.rows[j][rk] ELSE NA]
               \o [c \in 1..Len(rnk) |-> right.rows[j][rnk[c]]]
    IN  IF j > NRows(right) THEN <<>>
        ELSE IF any THEN RightOnlyRows(left, right, rnk, j + 1)
        ELSE <<row>> \o RightOnlyRows(left, right, rnk, j + 1)

\* pd.merge: [ok, err, df].  The rows come in the left frame's order, then
\* the right frame's unmatched rows; pandas sorts an outer join by key,
\* and nothing in the script reads the order.  strict tells pandas 2 from
\* pandas 1.
pd_merge(left, right, strict) ==
    LET overlap == NonKeyLabels(left) \cap NonKeyLabels(right)
        rnk     == KeepIdx(Len(right.columns), 1,
                       {i \in 1..Len(right.columns) : right.columns[i] # Country})
        rcols   == [c \in 1..Len(rnk) |-> right.columns[rnk[c]]]
        llabels == SuffixedLabels(left.columns, overlap, SuffixX)
        rlabels == SuffixedLabels(rcols, overlap, SuffixY)
    IN  IF ~HasColumn(left, Country) \/ ~HasColumn(right, Country)
        THEN [ok |-> FALSE, err |-> "KeyError", df |-> EmptyFrame]
        ELSE IF strict /\ (NewDuplicate(left.columns, llabels)
                           \/ NewDuplicate(rcols, rlabels))
        THEN [ok |-> FALSE, err |-> "MergeError", df |-> EmptyFrame]
        ELSE [ok  |-> TRUE, err |-> "",
              df  |-> [columns |-> llabels \o rlabels,
                       rows    |-> LeftRows(left, right, rnk, 1, 1)
                                   \o RightOnlyRows(left, right, rnk, 1)]]

-----------------------------------------------------------------------------
(* load_and_clean_data.  A file is [present, content]; the six files are   *)
(* named after the variables that hold them.                               *)

\* all_dfs, in the order of line 97
FileNames == <<"art_coverage", "paediatric_art_coverage", "adult_cases",
               "deaths", "living_with_hiv", "pmtct">>

FileSet == {FileNames[i] : i \in 1..Len(FileNames)}

\* other_dfs, in the order of line 107
OtherDfs == <<"deaths", "adult_cases", "art_coverage",
              "paediatric_art_coverage", "pmtct">>

Raised(err) == [ok |-> FALSE, err |-> err, df |-> EmptyFrame]

\* lines 101-104: the renames, by table
RenameForMerge(f, df) ==
    CASE f = "living_with_hiv" -> RenameColumn(df, Count_median, Count_median_living)
      [] f = "deaths"          -> RenameColumn(df, Count_median, Count_median_deaths)
      [] f = "adult_cases"     -> RenameColumn(df, Count_median, Count_median_adult_cases)
      [] f = "pmtct"           -> RenameColumn(df, Percentage_Recieved_median,
                                               PMTCT_Percentage_Recieved_median)
      [] OTHER                 -> df

\* the table merged with its WHO_Region column left in
df_to_mergeKeepRegion(df) == df

\* line 109: df.drop(columns=['WHO_Region'], errors='ignore')
df_to_merge(df) == DropColumns(df, {WHO_Region})

\* the loop of lines 108-110 from other_dfs[i] on; acc is df_final or the
\* exception a merge raised
RECURSIVE MergeLoop(_, _, _, _)
MergeLoop(acc, tables, i, strict) ==
    IF i > Len(OtherDfs) \/ ~acc.ok THEN acc
    ELSE MergeLoop(pd_merge(acc.df, df_to_merge(tables[OtherDfs[i]]), strict),
                   tables, i + 1, strict)

\* cleaned_dfs (line 98), by table
CleanedTables(fs) ==
    [f \in FileSet |-> clean_and_extract(ReadCsv(fs[f].content))]

\* the six tables as they reach the merge: read, cleaned, renamed
SourceTables(fs) ==
    [f \in FileSet |-> RenameForMerge(f, CleanedTables(fs)[f].df)]

\* lines 106-111
MergeTables(tables, strict) ==
    MergeLoop([ok |-> TRUE, err |-> "", df |-> tables["living_with_hiv"]],
              tables, 1, strict)

\* lines 99-111 on the six cleaned tables, each the result of its call of
\* clean_and_extract: a ValueError of one of the calls leaves the function
MergeCleaned(art_coverage, paediatric_art_coverage, adult_cases, deaths, living_with_hiv, pmtct, strict) ==
    IF \/ ~art_coverage.ok \/ ~paediatric_art_coverage.ok \/ ~adult_cases.ok
       \/ ~deaths.ok \/ ~living_with_hiv.ok \/ ~pmtct.ok
    THEN Raised("ValueError")
    ELSE MergeTables(
            [art_coverage            |-> RenameForMerge("art_coverage", art_coverage.df),
             paediatric_art_coverage |-> RenameForMerge("paediatric_art_coverage",
                                                        paediatric_art_coverage.df),
             adult_cases             |-> RenameForMerge("adult_cases", adult_cases.df),
             deaths                  |-> RenameForMerge("deaths", deaths.df),
             living_with_hiv         |-> RenameForMerge("living_with_hiv",
                                                        living_with_hiv.df),
             pmtct                   |-> RenameForMerge("pmtct", pmtct.df)],
            strict)

\* lines 98-111: the unpacking of line 99, then the renames and the merge
LoadFrom(cleaned, strict) ==
    MergeCleaned(cleaned["art_coverage"], cleaned["paediatric_art_coverage"],
                 cleaned["adult_cases"], cleaned["deaths"],
                 cleaned["living_with_hiv"], cleaned["pmtct"], strict)

\* load_and_clean_data(): [ok, err, df]; pd.read_csv raises
\* FileNotFoundError for a file that is not there
load_and_clean_data(fs, strict) ==
    IF \E f \in FileSet : ~fs[f].present THEN Raised("FileNotFoundError")
    ELSE LoadFrom(CleanedTables(fs), strict)

-----------------------------------------------------------------------------
(* The script: one run renders the page from top to bottom.                *)

All == <<"A", "l", "l">>

\* what a call that missed the cache stores and returns
StoreResult(c, res) ==
    [cache  |-> IF res.ok THEN [full |-> TRUE, value |-> res.df] ELSE c,
     result |-> res]

\* st.cache_data around load_and_clean_data, which takes no argument: the
\* first call that returns is stored and every later call gets the stored
\* table; a call that raises stores nothing
CachedCall(c, fs, strict) ==
    IF c.full THEN [cache |-> c, result |-> [ok |-> TRUE, err |-> "", df |-> c.value]]
    ELSE StoreResult(c, load_and_clean_data(fs, strict))

\* set_background: the style block, or st.error when the image is missing
set_background(image_present) ==
    IF image_present THEN "background" ELSE "background_error"

\* data["WHO_Region"].dropna().unique()
Regions(data) ==
    IF ~HasColumn(data, WHO_Region) THEN {}
    ELSE {ColumnCells(data, WHO_Region)[r].s :
             r \in {q \in 1..NRows(data) : NotNa(ColumnCells(data, WHO_Region)[q])}}

\* the options of the selectbox (line 121), as a set
region_list(data) == {All} \cup Regions(data)

\* the filter with != for ==
FilterRegionNotEqual(data, selected) ==
    [data EXCEPT !.rows =
        SelectSeq(data.rows,
                  LAMBDA row : row[ColumnAt(data, WHO_Region)] # Str(selected))]

\* data[data["WHO_Region"] == selected_region]
FilterRegion(data, selected) ==
    LET keep == {r \in 1..NRows(data) :
                    ColumnCells(data, WHO_Region)[r] = Str(selected)}
        idx  == KeepIdx(NRows(data), 1, keep)
    IN  [data EXCEPT !.rows = [i \in 1..Len(idx) |-> data.rows[idx[i]]]]

\* lines 123-124: the table narrowed to the selection
Narrowed(data, sel) ==
    [element |-> "sidebar_select", options |-> region_list(data),
     selected |-> sel,
     data |-> IF sel # All THEN FilterRegion(data, sel) ELSE data]

\* lines 120-126: what the selectbox returns and the narrowed table.  The
\* widget keeps the user's choice while it is one of the options and falls
\* back to the first option, "All", otherwise.
Sidebar(data, widget) ==
    IF Regions(data) = {}
    THEN [element |-> "sidebar_warning", options |-> {}, selected |-> All,
          data |-> data]
    ELSE Narrowed(data, IF widget \in region_list(data) THEN widget ELSE All)

\* Series.sum(): nulls are skipped, the sum of nothing is 0
RECURSIVE SumFrom(_, _)
SumFrom(cells, i) ==
    IF i > Len(cells) THEN [m |-> 0, e |-> 0]
    ELSE IF cells[i].k = "num"
         THEN AddNum([m |-> cells[i].m, e |-> cells[i].e], SumFrom(cells, i + 1))
         ELSE SumFrom(cells, i + 1)

SumColumn(data, name) == SumFrom(ColumnCells(data, name), 1)

\* f"{total:,.0f}": the total rounded to a whole number, halves to even
\* (the thousands separators are not modelled)
FormatCard(n) ==
    LET p == Pow10(n.e)
        q == n.m \div p
        r == n.m % p
    IN  IF 2 * r > p \/ (2 * r = p /\ q % 2 = 1) THEN q + 1 ELSE q

\* the cards with the deaths and the adult cases exchanged
KpiCardsSwapped(data) ==
    [living      |-> FormatCard(SumColumn(data, Count_median_living)),
     adult_cases |-> FormatCard(SumColumn(data, Count_median_deaths)),
     deaths      |-> FormatCard(SumColumn(data, Count_median_adult_cases))]

\* lines 135-145: the three totals, as the cards show them
KpiCards(data) ==
    [living      |-> FormatCard(SumColumn(data, Count_median_living)),
     adult_cases |-> FormatCard(SumColumn(data, Count_median_adult_cases)),
     deaths      |-> FormatCard(SumColumn(data, Count_median_deaths))]

NoCards == [living |-> 0, adult_cases |-> 0, deaths |-> 0]

\* the page below the title, in order: the columns a block reads (a missing
\* one is a KeyError there) and the elements it then shows.  The charts'
\* own contents (group sums and means) are not modelled.
Blocks ==
    << [needs |-> {Count_median_living, Count_median_deaths,
                   Count_median_adult_cases},
        shows |-> <<"card1", "card2", "card3">>],
       [needs |-> {WHO_Region, Count_median_living}, shows |-> <<"fig1">>],
       [needs |-> {WHO_Region, Count_median_deaths}, shows |-> <<"fig2">>],
       [needs |-> {Country, Count_median_living}, shows |-> <<"fig3">>],
       [needs |-> {}, shows |-> <<"raw_data">>],
       [needs |-> {WHO_Region, ART_coverage_median}, shows |-> <<"fig4">>],
       [needs |-> {WHO_Region, Paediatric_ART_coverage_median},
        shows |-> <<"fig5">>],
       [needs |-> {WHO_Region, PMTCT_Percentage_Recieved_median},
        shows |-> <<"fig6">>] >>

RECURSIVE RenderBlocks(_, _)
RenderBlocks(data, i) ==
    IF i > Len(Blocks) THEN <<>>
    ELSE IF \E c \in Blocks[i].needs : ~HasColumn(data, c) THEN <<"exception">>
    ELSE Blocks[i].shows \o RenderBlocks(data, i + 1)

Shown(body, e) == \E i \in 1..Len(body) : body[i] = e

\* the page of a run that got its table: sidebar, title, then the blocks
RenderPage(image_present, side, body) ==
    [elements  |-> <<set_background(image_present), side.element, "title">>
                   \o body,
     exception |-> IF Shown(body, "exception") THEN "KeyError" ELSE "",
     options   |-> side.options,
     selected  |-> side.selected,
     data      |-> side.data,
     cards     |-> IF Shown(body, "card1") THEN KpiCards(side.data) ELSE NoCards]

RenderSidebar(image_present, side) ==
    RenderPage(image_present, side, RenderBlocks(side.data, 1))

\* one run of the script, lines 65-217: the page it leaves.  An uncaught
\* exception ends the run; Streamlit shows it under what was rendered.
RunScript(image_present, loaded, widget) ==
    IF ~loaded.ok
    THEN [elements  |-> <<set_background(image_present), "exception">>,
          exception |-> loaded.err,
          options   |-> {},
          selected  |-> All,
          data      |-> EmptyFrame,
          cards     |-> NoCards]
    ELSE RenderSidebar(image_present, Sidebar(loaded.df, widget))

-----------------------------------------------------------------------------
(* The input files of the model.                                           *)

Chad ==
    <<"C", "h", "a", "d">>

Peru ==
    <<"P", "e", "r", "u">>

Mali ==
    <<"M", "a", "l", "i">>

Africa ==
    <<"A", "f", "r", "i", "c", "a">>

Americas ==
    <<"A", "m", "e", "r", "i", "c", "a", "s">>

Europe ==
    <<"E", "u", "r", "o", "p", "e">>

NoData ==
    <<"N", "o", " ", "d", "a", "t", "a">>

RawRegionHeader ==
    <<"W", "H", "O", " ", "R", "e", "g", "i", "o", "n">>

CountHeader ==
    <<"C", "o", "u", "n", "t">>

CountMinHeader ==
    <<"C", "o", "u", "n", "t", "_", "m", "i", "n">>

ArtHeader ==
    <<"E", "s", "t", "i", "m", "a", "t", "e", "d", " ", "A", "R", "T", " ",
      "c", "o", "v", "e", "r", "a", "g", "e", " ", "a", "m", "o", "n", "g",
      " ", "p", "e", "o", "p", "l", "e", " ", "l", "i", "v", "i", "n", "g",
      " ", "w", "i", "t", "h", " ", "H", "I", "V", " ", "(", "%", ")">>

PaediatricHeader ==
    <<"E", "s", "t", "i", "m", "a", "t", "e", "d", " ", "A", "R", "T", " ",
      "c", "o", "v", "e", "r", "a", "g", "e", " ", "a", "m", "o", "n", "g",
      " ", "c", "h", "i", "l", "d", "r", "e", "n", " ", "(", "%", ")">>

PmtctHeader ==
    <<"P", "e", "r", "c", "e", "n", "t", "a", "g", "e", " ", "R", "e", "c",
      "i", "e", "v", "e", "d">>

RangePart ==
    <<"[", "3", "0", "-", "6", "0", "]">>

FileIndex(f) == CHOOSE i \in 1..Len(FileNames) : FileNames[i] = f

\* the indicator column of each file, as the CSV's header spells it
IndicatorHeader(f) ==
    CASE f \in {"living_with_hiv", "deaths", "adult_cases"} -> CountHeader
      [] f = "art_coverage"            -> ArtHeader
      [] f = "paediatric_art_coverage" -> PaediatricHeader
      [] f = "pmtct"                   -> PmtctHeader

\* a two-digit point estimate that tells the file, the row and the variant
Estimate(f, c, v) == <<Digits[FileIndex(f) + 1], Digits[c + 3 * (v - 1) + 1]>>

\* "V [30-60]"
RangeCell(val) == val \o <<" ">> \o RangePart

StdHeader(f) == <<Country, IndicatorHeader(f), RawRegionHeader>>

\* the contents a file may have.  1: Chad and Peru; 2: Chad, under another
\* region, and Mali with no region; 3: Chad twice; 4: a further numeric
\* column Count_min; 5: the indicator under the header Count; 6: a range
\* whose point estimate is "<4"; 7: a row whose country is the token "na".
Content(f, v) ==
    CASE v = 1 ->
           [header  |-> StdHeader(f),
            records |-> << <<Chad, RangeCell(Estimate(f, 1, 1)), Africa>>,
                           <<Peru, RangeCell(Estimate(f, 2, 1)), Americas>> >>]
      [] v = 2 ->
           [header  |-> StdHeader(f),
            records |-> << <<Chad, RangeCell(Estimate(f, 1, 2)), Europe>>,
                           <<Mali, RangeCell(Estimate(f, 3, 2)), NoData>> >>]
      [] v = 3 ->
           [header  |-> StdHeader(f),
            records |-> << <<Chad, RangeCell(Estimate(f, 1, 1)), Africa>>,
                           <<Chad, RangeCell(Estimate(f, 2, 1)), Africa>> >>]
      [] v = 4 ->
           [header  |-> <<Country, IndicatorHeader(f), CountMinHeader,
                          RawRegionHeader>>,
            records |-> << <<Chad, RangeCell(Estimate(f, 1, 1)), <<"3">>, Africa>>,
                           <<Peru, RangeCell(Estimate(f, 2, 1)), <<"3">>, Americas>> >>]
      [] v = 5 ->
           [header  |-> <<Country, CountHeader, RawRegionHeader>>,
            records |-> << <<Chad, RangeCell(Estimate(f, 1, 1)), Africa>>,
                           <<Peru, RangeCell(Estimate(f, 2, 1)), Americas>> >>]
      [] v = 6 ->
           [header  |-> StdHeader(f),
            records |-> << <<Chad, RangeCell(<<"<", "4">>), Africa>> >>]
      [] v = 7 ->
           [header  |-> StdHeader(f),
            records |-> << <<<<"n", "a">>, RangeCell(Estimate(f, 1, 1)), Africa>>,
                           <<Peru, RangeCell(Estimate(f, 2, 1)), Americas>> >>]

\* the contents the dashboard's files take in Spec, and in SpecLoad
AppVariants == {1, 2}

LoadVariants == {1, 2, 3, 4, 5, 6, 7}

File(f, v) == [present |-> TRUE, content |-> Content(f, v)]

InitialFiles == [f \in FileSet |-> File(f, 1)]

-----------------------------------------------------------------------------
(* The raw tables clean_and_extract is applied to in SpecClean.            *)

VChars == {"4", "5", ".", "<"}

RECURSIVE TextsUpTo(_)
TextsUpTo(n) ==
    IF n = 0 THEN {<<>>}
    ELSE TextsUpTo(n - 1)
         \cup {Append(t, c) : t \in TextsUpTo(n - 1), c \in VChars}

VTexts == TextsUpTo(MaxVLen)

\* V, V[30-60] and V [30-60] for every V, the three tokens, and texts close
\* to them
CellTexts ==
    VTexts
    \cup {v \o RangePart : v \in VTexts}
    \cup {RangeCell(v) : v \in VTexts}
    \cup MissingTokens
    \cup {<<"N", "A">>, <<"n", "o", " ", "d", "a", "t", "a">>,
          <<" ", "4", "5", " ", "[", "3", "0", "-", "6", "0", "]">>}

\* what the other row holds in the Count column
SecondCells == {RangeCell(<<"4", "5">>), NoData, <<"7">>}

\* a table of two rows: Country, WHO Region, Count and, with median, a
\* Count_median column already in the file; field j of the first row is
\* t, and the second row's region is the token "Nodata"
CleanInput(t, j, c2, median) ==
    LET header == <<Country, RawRegionHeader, CountHeader>>
                  \o (IF median THEN <<Count_median>> ELSE <<>>)
        row1   == <<Chad, Africa, <<"6">>>> \o (IF median THEN <<<<"9">>>> ELSE <<>>)
        row2   == <<Peru, <<"N", "o", "d", "a", "t", "a">>, c2>> \o (IF median THEN <<<<"8">>>> ELSE <<>>)
    IN  [header |-> header, records |-> <<[row1 EXCEPT ![j] = t], row2>>]

-----------------------------------------------------------------------------
VARIABLES
    files,            \* the six CSV files in the working directory
    background,       \* whether background.jpg is there
    cache,            \* st.cache_data's entry for load_and_clean_data
    selected_region,  \* the selectbox's value in the session
    page,             \* what the last run of the script rendered
    changes,          \* how many times the files were changed so far
    df,               \* SpecClean: the argument of clean_and_extract
    ret               \* SpecClean, SpecLoad: what the call returned

vars == <<files, background, cache, selected_region, page, changes, df, ret>>

EmptyCache == [full |-> FALSE, value |-> EmptyFrame]

NoCall == [called |-> FALSE, ok |-> TRUE, err |-> "", df |-> EmptyFrame]

Returned(res) == [called |-> TRUE, ok |-> res.ok, err |-> res.err, df |-> res.df]

\* the page before the first run
NoPage ==
    [run |-> FALSE, at |-> 0, elements |-> <<>>, exception |-> "",
     options |-> {}, selected |-> All, data |-> EmptyFrame, cards |-> NoCards]

\* the page a run leaves; at records how many file changes preceded the run
PageOf(p, at) ==
    [run |-> TRUE, at |-> at, elements |-> p.elements, exception |-> p.exception,
     options |-> p.options, selected |-> p.selected, data |-> p.data,
     cards |-> p.cards]

-----------------------------------------------------------------------------
(* Spec: the dashboard.  The script runs when the page is opened or        *)
(* refreshed and when the user picks a region; the files change behind it. *)

Init ==
    /\ files = InitialFiles
    /\ background \in BOOLEAN
    /\ cache = EmptyCache
    /\ selected_region = All
    /\ page = NoPage
    /\ changes = 0
    /\ df = EmptyFrame
    /\ ret = NoCall

\* the state a run leaves: the cache as the call left it and the page
Finish(called, widget) ==
    /\ cache' = called.cache
    /\ page' = PageOf(RunScript(background, called.result, widget), changes)
    /\ selected_region' = page'.selected
    /\ UNCHANGED <<files, background, changes, df, ret>>

\* a run of the script with the selectbox holding widget
Run(widget) ==
    \E strict \in BOOLEAN : Finish(CachedCall(cache, files, strict), widget)

Rerun == Run(selected_region)

SelectRegion ==
    \E r \in page.options :
        /\ r # page.selected
        /\ Run(r)

ReplaceFile ==
    \E f \in FileSet : \E v \in AppVariants :
        /\ changes < MaxChanges
        /\ files[f] # File(f, v)
        /\ files' = [files EXCEPT ![f] = File(f, v)]
        /\ changes' = changes + 1
        /\ UNCHANGED <<background, cache, selected_region, page, df, ret>>

DeleteFile ==
    \E f \in FileSet :
        /\ changes < MaxChanges
        /\ files[f].present
        /\ files' = [files EXCEPT ![f].present = FALSE]
        /\ changes' = changes + 1
        /\ UNCHANGED <<background, cache, selected_region, page, df, ret>>

Next == Rerun \/ SelectRegion \/ ReplaceFile \/ DeleteFile

Spec == Init /\ [][Next]_vars

-----------------------------------------------------------------------------
(* SpecClean: clean_and_extract applied to one raw table.                  *)

InitClean ==
    /\ files = InitialFiles
    /\ background = TRUE
    /\ cache = EmptyCache
    /\ selected_region = All
    /\ page = NoPage
    /\ changes = 0
    /\ \E median \in BOOLEAN :
       \E j \in 1..(IF median THEN 4 ELSE 3) :
       \E t \in CellTexts : \E c2 \in SecondCells :
           df = ReadCsv(CleanInput(t, j, c2, median))
    /\ ret = NoCall

CallClean ==
    /\ ~ret.called
    /\ ret' = Returned(clean_and_extract(df))
    /\ UNCHANGED <<files, background, cache, selected_region, page, changes, df>>

NextClean == CallClean

SpecClean == InitClean /\ [][NextClean]_vars

-----------------------------------------------------------------------------
(* SpecLoad: load_and_clean_data called once on files that were written    *)
(* before the call.                                                        *)

CountFiles == {"living_with_hiv", "deaths", "adult_cases"}

InitLoad ==
    /\ \E v \in {1, 4} :
           files = [f \in FileSet |-> IF f \in CountFiles THEN File(f, v)
                                      ELSE File(f, 1)]
    /\ background = TRUE
    /\ cache = EmptyCache
    /\ selected_region = All
    /\ page = NoPage
    /\ changes = 0
    /\ df = EmptyFrame
    /\ ret = NoCall

\* the files whose contents change: the first table of the join, and of
\* the loop of line 108 its first table, a coverage table and its last
WrittenFiles == {"living_with_hiv", "deaths", "art_coverage", "pmtct"}

WriteFile ==
    \E f \in WrittenFiles : \E v \in LoadVariants :
        /\ ~ret.called
        /\ changes < MaxChanges
        /\ files[f] # File(f, v)
        /\ files' = [files EXCEPT ![f] = File(f, v)]
        /\ changes' = changes + 1
        /\ UNCHANGED <<background, cache, selected_region, page, df, ret>>

CallLoad ==
    \E strict \in BOOLEAN :
        /\ ~ret.called
        /\ ret' = Returned(load_and_clean_data(files, strict))
        /\ UNCHANGED <<files, background, cache, selected_region, page, changes, df>>

NextLoad == WriteFile \/ CallLoad

SpecLoad == InitLoad /\ [][NextLoad]_vars

-----------------------------------------------------------------------------
(* What the claims are stated with.                                        *)

\* the raw table of SpecClean after line 81
Renamed == RenameColumns(df)

\* clean_and_extract derives a <col>_median column for column j: the
\* column holds a bracketed range and the frame has no such label yet
Derives(j) ==
    /\ \E r \in 1..NRows(df) : df.rows[r][j].k = "str" /\ ContainsBracket(df.rows[r][j].s)
    /\ ~HasColumn(Renamed, Renamed.columns[j] \o MedianSuffix)

\* the cell of row r under the label name
CellAt(frame, r, name) == frame.rows[r][ColumnAt(frame, name)]

\* the Country cells of a frame
CountriesOf(frame) == {CellAt(frame, r, Country) : r \in 1..NRows(frame)}

\* no two rows of the frame have the same Country
CountryUnique(frame) ==
    \A q, r \in 1..NRows(frame) :
        q # r => CellAt(frame, q, Country) # CellAt(frame, r, Country)

\* the labels of a frame that are indicator columns
IndicatorLabels(frame) ==
    {frame.columns[i] : i \in 1..Len(frame.columns)} \ {Country, WHO_Region}

\* the rows of a merged table whose WHO_Region is the selection, in order;
\* all of them for "All"
ViewOf(frame, selection) ==
    IF selection = All \/ ~HasColumn(frame, WHO_Region) THEN frame.rows
    ELSE SelectSeq(frame.rows,
                   LAMBDA row : row[ColumnAt(frame, WHO_Region)] = Str(selection))

\* the total of column j over rows; the dashboard's files hold whole
\* numbers only
RECURSIVE WholeTotal(_, _, _)
WholeTotal(rows, j, i) ==
    IF i > Len(rows) THEN 0
    ELSE (IF rows[i][j].k = "num" THEN rows[i][j].m ELSE 0)
         + WholeTotal(rows, j, i + 1)

PageShows(e) == \E i \in 1..Len(page.elements) : page.elements[i] = e

DataElements ==
    {"card1", "card2", "card3", "fig1", "fig2", "fig3", "fig4", "fig5", "fig6",
     "raw_data"}

FortyFiveRange == RangeCell(<<"4", "5">>)

\* the cleaned living-with-HIV table, the first of the join
LivingTable == CleanedTables(files)["living_with_hiv"].df

\* row q of living and row r of merged have the same country and region
SameCountryAndRegion(merged, r, living, q) ==
    /\ CellAt(living, q, Country) = CellAt(merged, r, Country)
    /\ CellAt(living, q, WHO_Region) = CellAt(merged, r, WHO_Region)

\* every row of merged whose country is in living has the region of such
\* a row of living, every other row has none, and every row of living is
\* in merged with its region
RegionsOf(merged, living) ==
    /\ \A r \in 1..NRows(merged) :
          IF \E q \in 1..NRows(living) :
                CellAt(living, q, Country) = CellAt(merged, r, Country)
          THEN \E q \in 1..NRows(living) : SameCountryAndRegion(merged, r, living, q)
          ELSE CellAt(merged, r, WHO_Region) = NA
    /\ \A q \in 1..NRows(living) :
          \E r \in 1..NRows(merged) : SameCountryAndRegion(merged, r, living, q)

-----------------------------------------------------------------------------
(* The claims.                                                             *)

\* C1: when clean_and_extract returns, every cell "V [lo-hi]" of a column
\* it derives a _median column for has V read as a number in that column,
\* on the same row; "45 [30-60]" gives 45.0.
C1_MedianIsPointEstimate ==
    (ret.called /\ ret.ok) =>
        \A j \in 1..Len(df.columns) : \A r \in 1..NRows(df) :
            Derives(j) =>
                /\ \A v \in VTexts :
                      (IsNumeral(v) /\ df.rows[r][j] = Str(RangeCell(v))) =>
                          /\ HasColumn(ret.df, Renamed.columns[j] \o MedianSuffix)
                          /\ CellAt(ret.df, r, Renamed.columns[j] \o MedianSuffix)
                                = NumCell(ParseFloat(v))
                /\ df.rows[r][j] = Str(FortyFiveRange) =>
                      CellAt(ret.df, r, Renamed.columns[j] \o MedianSuffix)
                         = Num(45, 0)

\* C1's case: "4.5 [30-60]" in the first row of Count came out as 4.5 in
\* Count_median, beside "45 [30-60]" as 45
C1_Witness ==
    /\ ret.called /\ ret.ok
    /\ Len(df.columns) = 3
    /\ df.rows[1][3] = Str(RangeCell(<<"4", ".", "5">>))
    /\ df.rows[2][3] = Str(FortyFiveRange)
    /\ HasColumn(ret.df, Count_median)
    /\ CellAt(ret.df, 1, Count_median) = Num(45, 1)
    /\ CellAt(ret.df, 2, Count_median) = Num(45, 0)

\* C2: when clean_and_extract returns, a cell that was exactly "No data",
\* "na" or "Nodata" is null in its column if the column is kept, and null
\* in the _median column derived from its column.
C2_TokensBecomeNull ==
    (ret.called /\ ret.ok) =>
        \A j \in 1..Len(df.columns) : \A r \in 1..NRows(df) :
            (df.rows[r][j].k = "str" /\ df.rows[r][j].s \in MissingTokens) =>
                /\ HasColumn(ret.df, Renamed.columns[j]) =>
                      CellAt(ret.df, r, Renamed.columns[j]) = NA
                /\ Derives(j) =>
                      /\ HasColumn(ret.df, Renamed.columns[j] \o MedianSuffix)
                      /\ CellAt(ret.df, r, Renamed.columns[j] \o MedianSuffix) = NA

\* C2's case: "Nodata" as the region of the second row, kept as a null,
\* and "No data" in the first row of a Count column of ranges, null in
\* the Count_median derived from it
C2_Witness ==
    /\ ret.called /\ ret.ok
    /\ Len(df.columns) = 3
    /\ df.rows[2][2] = Str(<<"N", "o", "d", "a", "t", "a">>)
    /\ df.rows[1][3] = Str(NoData)
    /\ df.rows[2][3] = Str(FortyFiveRange)
    /\ CellAt(ret.df, 2, WHO_Region) = NA
    /\ ~HasColumn(ret.df, CountHeader)
    /\ CellAt(ret.df, 1, Count_median) = NA
    /\ CellAt(ret.df, 2, Count_median) = Num(45, 0)

\* C3: when load_and_clean_data returns and Country is unique in each of
\* the six cleaned tables, Country is unique in the merged table and its
\* countries are exactly those of the six tables together.
C3_OuterJoinKeepsEveryCountry ==
    (/\ ret.called /\ ret.ok
     /\ \A f \in FileSet : CountryUnique(CleanedTables(files)[f].df)) =>
        /\ CountryUnique(ret.df)
        /\ CountriesOf(ret.df)
              = UNION {CountriesOf(CleanedTables(files)[f].df) : f \in FileSet}

\* C3's case: three countries in the merged table, one per row, Mali from
\* a table other than the first of the join
C3_Witness ==
    /\ ret.called /\ ret.ok
    /\ \A f \in FileSet : CountryUnique(CleanedTables(files)[f].df)
    /\ Str(Mali) \notin CountriesOf(CleanedTables(files)["living_with_hiv"].df)
    /\ CountriesOf(ret.df) = {Str(Chad), Str(Peru), Str(Mali)}
    /\ NRows(ret.df) = 3

\* C4: once the merged table is cached, the table a run shows holds, in
\* order, exactly the rows of the merged table whose WHO_Region is the
\* region selected, and the whole merged table under "All".
C4_FilterByRegion ==
    cache.full =>
        /\ page.data.columns = cache.value.columns
        /\ page.selected = All => page.data = cache.value
        /\ page.selected # All =>
              /\ \A r \in 1..NRows(page.data) :
                    CellAt(page.data, r, WHO_Region) = Str(page.selected)
              /\ page.data.rows = ViewOf(cache.value, page.selected)

\* C4's case: a region is selected, some rows are shown and some are not,
\* one of them a row with no region
C4_Witness ==
    /\ cache.full
    /\ page.selected = Africa
    /\ NRows(page.data) >= 1
    /\ NRows(page.data) < NRows(cache.value)
    /\ \E r \in 1..NRows(cache.value) : CellAt(cache.value, r, WHO_Region) = NA

\* C5 (as claimed): after a run with one of the six files missing, the
\* page shows the exception and no card, chart or table.
C5_MissingFileDisablesPage ==
    (/\ page.run /\ page.at = changes
     /\ \E f \in FileSet : ~files[f].present) =>
        /\ PageShows("exception")
        /\ \A e \in DataElements : ~PageShows(e)

\* C6 (as claimed): after a run that no file change followed, the table
\* shown is the one load_and_clean_data computes from the files as they
\* are.
C6_CacheFollowsFiles ==
    (/\ page.run /\ page.at = changes
     /\ load_and_clean_data(files, TRUE).ok) =>
        page.data.rows = ViewOf(load_and_clean_data(files, TRUE).df, page.selected)

\* C7 (as claimed): in a column clean_and_extract derives a _median column
\* for, a cell that is not missing and whose first token is no number
\* raises nothing and is null in the _median column.
C7_MalformedBecomesMissing ==
    ret.called =>
        \A j \in 1..Len(df.columns) : \A r \in 1..NRows(df) :
            (/\ Derives(j)
             /\ df.rows[r][j].k = "str"
             /\ df.rows[r][j].s \notin MissingTokens
             /\ ~ParseFloat(FirstToken(df.rows[r][j].s)).ok) =>
                /\ ret.ok
                /\ HasColumn(ret.df, Renamed.columns[j] \o MedianSuffix)
                /\ CellAt(ret.df, r, Renamed.columns[j] \o MedianSuffix) = NA

\* C8 (as claimed): the tables that reach pd.merge share no indicator
\* label, and every indicator column of every table is in the merged
\* table under its own label.
C8_CollisionsRenamedBeforeMerge ==
    (/\ ret.called
     /\ \A f \in FileSet : CleanedTables(files)[f].ok) =>
        /\ \A f, g \in FileSet :
              f # g => IndicatorLabels(SourceTables(files)[f])
                          \cap IndicatorLabels(SourceTables(files)[g]) = {}
        /\ ret.ok
        /\ \A f \in FileSet :
              \A c \in IndicatorLabels(SourceTables(files)[f]) : HasColumn(ret.df, c)

\* C9: when load_and_clean_data returns, the merged table has one
\* WHO_Region column; a row whose country is in the living-with-HIV table
\* has the region of a row of that table with that country, every row of
\* that table is there with its region, and a row whose country is not in
\* that table has no region.
C9_RegionFromLivingOnly ==
    (ret.called /\ ret.ok) =>
        /\ Cardinality({i \in 1..Len(ret.df.columns) :
                           ret.df.columns[i] = WHO_Region}) = 1
        /\ \A i \in 1..Len(ret.df.columns) :
              ret.df.columns[i] \notin {WHO_Region \o SuffixX, WHO_Region \o SuffixY}
        /\ RegionsOf(ret.df, LivingTable)

\* C9's case: Chad is in Africa in the living-with-HIV table and in Europe
\* in the deaths table, and Mali is in the deaths table only
C9_Witness ==
    /\ ret.called /\ ret.ok
    /\ files["living_with_hiv"] = File("living_with_hiv", 1)
    /\ files["deaths"] = File("deaths", 2)
    /\ \E r \in 1..NRows(ret.df) :
          /\ CellAt(ret.df, r, Country) = Str(Chad)
          /\ CellAt(ret.df, r, WHO_Region) = Str(Africa)
    /\ \E r \in 1..NRows(ret.df) :
          /\ CellAt(ret.df, r, Country) = Str(Mali)
          /\ CellAt(ret.df, r, WHO_Region) = NA

\* C10, in every state: once the merged table is cached, the selection the
\* page shows is the session's, the table shown is the cached table
\* narrowed by that selection alone, and the cards show the totals of the
\* three counts over the table shown.
C10_ViewOfLatestSelection ==
    cache.full =>
        /\ page.selected = selected_region
        /\ page.data.columns = cache.value.columns
        /\ page.data.rows = ViewOf(cache.value, selected_region)
        /\ PageShows("card1") =>
              /\ page.cards.living
                    = WholeTotal(ViewOf(cache.value, selected_region),
                                 ColumnAt(cache.value, Count_median_living), 1)
              /\ page.cards.adult_cases
                    = WholeTotal(ViewOf(cache.value, selected_region),
                                 ColumnAt(cache.value, Count_median_adult_cases), 1)
              /\ page.cards.deaths
                    = WholeTotal(ViewOf(cache.value, selected_region),
                                 ColumnAt(cache.value, Count_median_deaths), 1)

\* C10: the above, and no step changes the cached table once it is stored.
C10_StatelessProjection ==
    /\ []C10_ViewOfLatestSelection
    /\ [][cache.full => cache' = cache]_vars

\* C10's case: the page shows the Americas, fewer rows than the cached
\* table has, and the cards show their totals
C10_Witness ==
    /\ cache.full
    /\ selected_region = Americas
    /\ PageShows("card1")
    /\ NRows(page.data) >= 1
    /\ NRows(page.data) < NRows(cache.value)
    /\ page.cards.living > 0
    /\ page.cards.deaths # page.cards.adult_cases

=============================================================================
